---- MODULE Spec2Model ----
(***************************************************************************)
(* dump-cat: the decode pipeline of MessageTreeDumper::read_trees          *)
(* (src/src/message_tree_dumper.rs).                                       *)
(*                                                                         *)
(*   [file] -> BlockReaderThread -> block channel (cap B)                  *)
(*          -> TreeDecoder0..N-1 -> tree channel (cap T) -> consumer       *)
(*                                                                         *)
(* A block is the body of one frame of the file; its records either decode *)
(* to a MessageTree or make MessageTree::decode fail.  The file is         *)
(* revealed block by block as the frame reader reads it.                   *)
(***************************************************************************)
EXTENDS Integers, Sequences, FiniteSets, Bags, TLC

\* Bounds of the model: blocks in the file, records in a block.
MaxBlocks == 2
MaxRecords == 2

\* The configurations explored: --decoding-threads (N) and the two
\* --*-channel-buffer-size options (B, T).
ThreadChoices == {0, 1, 4}
CapChoices == {1, 2}

VARIABLES
    threads,                            \* MessageTreeDumper.threads (N)
    block_reader_channel_buffer_size,   \* capacity B of the block channel
    tree_decoder_channel_buffer_size,   \* capacity T of the tree channel
    file,          \* the blocks the frame reader has emitted so far, in file order
    reader_pc,     \* BlockReaderThread: "next" | "send" | "done" | "panicked"
    reader_cause,  \* why it stopped: "" | "eof" | "disconnected" | "truncated" | "short_read"
    block_chan,    \* the block channel's queue
    tree_chan,     \* the tree channel's queue
    spawned,       \* TreeDecoder threads spawned so far by read_trees
    returned,      \* read_trees has returned tree_receiver (and dropped its own handles)
    decoder,       \* bag of the TreeDecoders' loop positions [pc, trees]:
                   \*   pc "recv" | "send" | "spinning" | "done" | "panicked",
                   \*   trees = those of its block not yet accepted by the tree channel
    consumer,      \* "recv" | "closed" (saw Disconnected) | "dropped" (receivers dropped)
    emitted,       \* history: per block, the trees placed on the tree channel, in order
    delivered,     \* history: bag of the trees the consumer received
    taken          \* history: bag of the block numbers received by TreeDecoders

\* The parts of the program that are exercised on their own, each under a
\* specification of its own (they stand still while the pipeline runs).
VARIABLES
    snappy,        \* a SnappyReader over one block and the read call in progress
    frames,        \* a MessageBlockReader over one file
    decoding,      \* one call of MessageTree::decode on one record
    varint,        \* one call of read_varint
    filters        \* the filter threads of main and the trees they are given

units == <<snappy, frames, decoding, varint, filters>>

pipeline == <<threads, block_reader_channel_buffer_size, tree_decoder_channel_buffer_size,
              file, reader_pc, reader_cause, block_chan, tree_chan, spawned, returned,
              decoder, consumer, emitted, delivered, taken>>

vars == <<threads, block_reader_channel_buffer_size, tree_decoder_channel_buffer_size,
          file, reader_pc, reader_cause, block_chan, tree_chan, spawned, returned,
          decoder, consumer, emitted, delivered, taken, snappy, frames, decoding,
          varint, filters>>

\* A unit that is not exercised.
Unused == [pc |-> "unused"]

config == <<threads, block_reader_channel_buffer_size, tree_decoder_channel_buffer_size>>

----------------------------------------------------------------------------
\* Data: records, blocks, trees.

\* The tree MessageTree::decode builds from record k of block b.
Tree(b, k) == [blk |-> b, rec |-> k]

\* A block of n records.  With fails > 0, record `fails` is the first that does
\* not decode: "bad" makes try_read_data or MessageTree::decode return an error,
\* "cut" is a record the decompressed stream ends inside of (fewer bytes are left
\* than the read asks for, and more than none).
Block(b, n, fails, how) ==
    [no |-> b,
     recs |-> [k \in 1..n |-> [tree |-> Tree(b, k),
                               status |-> IF k = fails THEN how ELSE "ok"]]]

\* The first record of the block that does not decode (0: none).
FirstFailure(block) ==
    LET F == {k \in DOMAIN block.recs : block.recs[k].status # "ok"}
    IN  IF F = {} THEN 0 ELSE CHOOSE k \in F : \A j \in F : k <= j

\* (faulty variant: the trees decoded before the failing record are handed on)
read_block_keeping(block) ==
    LET k == FirstFailure(block) IN
    [outcome |-> "trees",
     trees |-> [i \in 1..(IF k = 0 THEN Len(block.recs) ELSE k - 1) |-> block.recs[i].tree]]

\* (faulty variant: the trees collected in reverse record order)
read_block_reversed(block) ==
    LET k == FirstFailure(block) IN
    IF k = 0
    THEN [outcome |-> "trees",
          trees |-> [i \in DOMAIN block.recs |->
                        block.recs[Len(block.recs) + 1 - i].tree]]
    ELSE [outcome |-> IF block.recs[k].status = "bad" THEN "panic" ELSE "spin",
          trees |-> <<>>]

\* read_block: the record loop of MessageTreeReader::into_iter, collected into
\* a Vec.  It returns the trees of the block; or it panics at the first record
\* that fails ("decode message tree" / "try read data"), which discards the
\* trees decoded before it; or it never returns: on a cut record
\* SnappyReader::read loops with 0 < buf.len() < size and no chunk left.
read_block(block) ==
    LET k == FirstFailure(block) IN
    IF k = 0
    THEN [outcome |-> "trees",
          trees |-> [i \in DOMAIN block.recs |-> block.recs[i].tree]]
    ELSE [outcome |-> IF block.recs[k].status = "bad" THEN "panic" ELSE "spin",
          trees |-> <<>>]

----------------------------------------------------------------------------
\* crossbeam bounded channels.

\* send_timeout: Disconnected once every receiver is dropped, Ok when there is
\* room, Timeout (the item is handed back) when the queue stays full.
\* (faulty variant: the capacity is not enforced)
send_timeout_unbounded(chan, cap, receivers) ==
    IF receivers = 0 THEN "Disconnected" ELSE "Ok"

send_timeout(chan, cap, receivers) ==
    IF receivers = 0 THEN "Disconnected"
    ELSE IF Len(chan) < cap THEN "Ok" ELSE "Timeout"

\* recv_timeout: queued items are received even after the senders are gone.
\* (faulty variant: an empty queue is taken for a closed channel)
recv_timeout_eager(chan, senders) ==
    IF chan # <<>> THEN "Ok" ELSE "Disconnected"

recv_timeout(chan, senders) ==
    IF chan # <<>> THEN "Ok"
    ELSE IF senders = 0 THEN "Disconnected" ELSE "Timeout"

\* (faulty variant: a send puts the item at the front of the queue)
SendOkFront(chan, item) == <<item>> \o chan
\* (faulty variant: a send that timed out has queued the item all the same)
SendTimedOutQueued(chan, item) == Append(chan, item)

\* The queue after a successful send / after a send that timed out.
SendOk(chan, item) == Append(chan, item)
SendTimedOut(chan, item) == chan

\* What a send attempt newly placed on the queue (history bookkeeping).
Placed(old, new) == SubSeq(new, Len(old) + 1, Len(new))

\* The item a successful receive takes, and the queue it leaves.
RecvItem(chan) == Head(chan)
RecvRest(chan) == Tail(chan)

\* The TreeDecoders whose loop position is in `pcs`.
Decoders(pcs) ==
    LET S == {d \in BagToSet(decoder) : d.pc \in pcs}
    IN  BagCardinality([d \in S |-> decoder[d]])

\* The decoders that still run, and so hold their block_receiver and tree_sender.
decoders_alive == Decoders({"recv", "send", "spinning"})

\* Live handles of each channel end.  read_trees keeps the original
\* block_receiver and tree_sender until it returns; each TreeDecoder owns a
\* clone of both; the BlockReaderThread owns block_sender.

block_senders == IF reader_pc \in {"next", "send"} THEN 1 ELSE 0
block_receivers == (IF returned THEN 0 ELSE 1) + decoders_alive
tree_senders == (IF returned THEN 0 ELSE 1) + decoders_alive
tree_receivers == IF consumer = "dropped" THEN 0 ELSE 1

----------------------------------------------------------------------------
Init ==
    /\ threads \in ThreadChoices
    /\ block_reader_channel_buffer_size \in CapChoices
    /\ tree_decoder_channel_buffer_size \in CapChoices
    /\ file = <<>>
    /\ reader_pc = "next"
    /\ reader_cause = ""
    /\ block_chan = <<>>
    /\ tree_chan = <<>>
    /\ spawned = 0
    /\ returned = FALSE
    /\ decoder = EmptyBag
    /\ consumer = "recv"
    /\ emitted = [b \in 1..MaxBlocks |-> <<>>]
    /\ delivered = EmptyBag
    /\ taken = EmptyBag
    /\ snappy = Unused /\ frames = Unused /\ decoding = Unused
    /\ varint = Unused /\ filters = Unused

----------------------------------------------------------------------------
\* read_trees (the calling thread): spawn the TreeDecoders, then return.

\* A TreeDecoder starts at block_receiver.recv_timeout.
Spawned == [pc |-> "recv", trees |-> <<>>]

SpawnDecoder ==
    /\ spawned < threads
    /\ spawned' = spawned + 1
    /\ decoder' = decoder (+) SetToBag({Spawned})
    /\ UNCHANGED <<units, config, file, reader_pc, reader_cause, block_chan, tree_chan,
                   returned, consumer, emitted, delivered, taken>>

\* End of read_trees: the original block_receiver and tree_sender are dropped
\* and the caller gets tree_receiver.
ReturnReceiver ==
    /\ spawned = threads
    /\ ~returned
    /\ returned' = TRUE
    /\ UNCHANGED <<units, config, file, reader_pc, reader_cause, block_chan, tree_chan,
                   spawned, decoder, consumer, emitted, delivered, taken>>

----------------------------------------------------------------------------
\* BlockReaderThread.

to_send == file[Len(file)]

\* The blocks a frame can hold: n records that all decode, or the record
\* `fails` bad, or the last record cut.
BlockShapes ==
    {<<n, 0, "ok">> : n \in 0..MaxRecords}
    \cup {s \in (1..MaxRecords) \X (1..MaxRecords) \X {"bad"} : s[2] <= s[1]}
    \cup {<<n, n, "cut">> : n \in 1..MaxRecords}

\* block_reader.into_iter().next() yields a block: try_read_data read a whole
\* length and body.
ReaderNextBlock ==
    /\ reader_pc = "next"
    /\ Len(file) < MaxBlocks
    /\ \E s \in BlockShapes :
          file' = Append(file, Block(Len(file) + 1, s[1], s[2], s[3]))
    /\ reader_pc' = "send"
    /\ UNCHANGED <<units, config, reader_cause, block_chan, tree_chan, spawned, returned,
                   decoder, consumer, emitted, delivered, taken>>

\* try_read_data returns None (read gave 0 bytes): the for loop ends and the
\* closure returns, dropping block_sender.
ReaderEof ==
    /\ reader_pc = "next"
    /\ reader_pc' = "done"
    /\ reader_cause' = "eof"
    /\ UNCHANGED <<units, config, file, block_chan, tree_chan, spawned, returned,
                   decoder, consumer, emitted, delivered, taken>>

\* try_read_data panics ("read length error": read gave 1..3 bytes) or fails in
\* read_exact and `expect` panics.  The file ends inside the frame ("truncated"),
\* or BufReader::read handed out the 1..3 bytes left in its 1 MiB buffer although
\* the file goes on ("short_read"; not at the first frame, whose length follows
\* the magic in the first fill of the buffer).  Unwinding drops block_sender.
PanicCauses == IF file = <<>> THEN {"truncated"} ELSE {"truncated", "short_read"}

ReaderPanic ==
    /\ reader_pc = "next"
    /\ reader_pc' = "panicked"
    /\ reader_cause' \in PanicCauses
    /\ UNCHANGED <<units, config, file, block_chan, tree_chan, spawned, returned,
                   decoder, consumer, emitted, delivered, taken>>

ReaderSendOk ==
    /\ reader_pc = "send"
    /\ send_timeout(block_chan, block_reader_channel_buffer_size, block_receivers) = "Ok"
    /\ block_chan' = SendOk(block_chan, to_send)
    /\ reader_pc' = "next"
    /\ UNCHANGED <<units, config, file, reader_cause, tree_chan, spawned, returned,
                   decoder, consumer, emitted, delivered, taken>>

\* "Reading blocks too fast.": retry the same block.
ReaderSendTimeout ==
    /\ reader_pc = "send"
    /\ send_timeout(block_chan, block_reader_channel_buffer_size, block_receivers) = "Timeout"
    /\ block_chan' = SendTimedOut(block_chan, to_send)
    /\ UNCHANGED <<units, config, file, reader_pc, reader_cause, tree_chan, spawned, returned,
                   decoder, consumer, emitted, delivered, taken>>

\* Receiver disconnected: `return`.
ReaderSendDisconnected ==
    /\ reader_pc = "send"
    /\ send_timeout(block_chan, block_reader_channel_buffer_size, block_receivers)
          = "Disconnected"
    /\ reader_pc' = "done"
    /\ reader_cause' = "disconnected"
    /\ UNCHANGED <<units, config, file, block_chan, tree_chan, spawned, returned,
                   decoder, consumer, emitted, delivered, taken>>

----------------------------------------------------------------------------
\* TreeDecoder threads.  d is the loop position of the decoder that steps.

\* (faulty variant: a decoder's panic takes every running decoder down with it)
MovedOrAllDown(d, e) ==
    IF e.pc = "panicked"
    THEN LET S == BagToSet(decoder)
             Down(x) == IF x.pc \in {"recv", "send", "spinning"}
                        THEN [pc |-> "panicked", trees |-> <<>>] ELSE x
         IN  [y \in {Down(x) : x \in S} |->
                 BagCardinality([x \in {x \in S : Down(x) = y} |-> decoder[x]])]
    ELSE (decoder (-) SetToBag({d})) (+) SetToBag({e})

\* One decoder moves from loop position d to e.
Moved(d, e) == (decoder (-) SetToBag({d})) (+) SetToBag({e})

\* The history of placements: what a send attempt put on the tree channel.
Emit(placed) ==
    [b \in 1..MaxBlocks |-> emitted[b] \o SelectSeq(placed, LAMBDA t : t.blk = b)]

\* The decoder's loop position after read_block: panicked, inside the call for
\* ever, sending the first tree, or (a block without records) back at
\* recv_timeout.
AfterReadBlock(res) ==
    IF res.outcome = "panic" THEN [pc |-> "panicked", trees |-> <<>>]
    ELSE IF res.outcome = "spin" THEN [pc |-> "spinning", trees |-> <<>>]
    ELSE IF res.trees = <<>> THEN [pc |-> "recv", trees |-> <<>>]
    ELSE [pc |-> "send", trees |-> res.trees]

DecoderRecvOk(d) ==
    /\ BagIn(d, decoder) /\ d.pc = "recv"
    /\ recv_timeout(block_chan, block_senders) = "Ok"
    /\ LET block == RecvItem(block_chan) IN
         /\ block_chan' = RecvRest(block_chan)
         /\ taken' = taken (+) SetToBag({block.no})
         /\ decoder' = Moved(d, AfterReadBlock(read_block(block)))
    /\ UNCHANGED <<units, config, file, reader_pc, reader_cause, tree_chan, spawned, returned,
                   consumer, emitted, delivered>>

\* "Waiting for new block": continue.
DecoderRecvTimeout(d) ==
    /\ BagIn(d, decoder) /\ d.pc = "recv"
    /\ recv_timeout(block_chan, block_senders) = "Timeout"
    /\ UNCHANGED vars

DecoderRecvDisconnected(d) ==
    /\ BagIn(d, decoder) /\ d.pc = "recv"
    /\ recv_timeout(block_chan, block_senders) = "Disconnected"
    /\ decoder' = Moved(d, [pc |-> "done", trees |-> <<>>])
    /\ UNCHANGED <<units, config, file, reader_pc, reader_cause, block_chan, tree_chan,
                   spawned, returned, consumer, emitted, delivered, taken>>

\* (faulty variant: the decoder goes back to recv_timeout after one tree)
AfterSendFirstOnly(trees) == [pc |-> "recv", trees |-> <<>>]

\* The loop of SnappyReader::read goes round once more: nothing changes.
DecoderSpin(d) ==
    /\ BagIn(d, decoder) /\ d.pc = "spinning"
    /\ UNCHANGED vars

\* The decoder's loop position after a tree was accepted by the tree channel.
AfterSend(trees) ==
    IF Tail(trees) = <<>> THEN [pc |-> "recv", trees |-> <<>>]
    ELSE [pc |-> "send", trees |-> Tail(trees)]

DecoderSendOk(d) ==
    /\ BagIn(d, decoder) /\ d.pc = "send"
    /\ send_timeout(tree_chan, tree_decoder_channel_buffer_size, tree_receivers) = "Ok"
    /\ tree_chan' = SendOk(tree_chan, Head(d.trees))
    /\ emitted' = Emit(Placed(tree_chan, tree_chan'))
    /\ decoder' = Moved(d, AfterSend(d.trees))
    /\ UNCHANGED <<units, config, file, reader_pc, reader_cause, block_chan, spawned, returned,
                   consumer, delivered, taken>>

\* "Decoding too fast.": retry the same tree.
DecoderSendTimeout(d) ==
    /\ BagIn(d, decoder) /\ d.pc = "send"
    /\ send_timeout(tree_chan, tree_decoder_channel_buffer_size, tree_receivers) = "Timeout"
    /\ tree_chan' = SendTimedOut(tree_chan, Head(d.trees))
    /\ emitted' = Emit(Placed(tree_chan, tree_chan'))
    /\ UNCHANGED <<units, config, file, reader_pc, reader_cause, block_chan, spawned, returned,
                   decoder, consumer, delivered, taken>>

\* Receiver disconnected: `return`, which drops the trees not yet sent.
DecoderSendDisconnected(d) ==
    /\ BagIn(d, decoder) /\ d.pc = "send"
    /\ send_timeout(tree_chan, tree_decoder_channel_buffer_size, tree_receivers)
          = "Disconnected"
    /\ decoder' = Moved(d, [pc |-> "done", trees |-> <<>>])
    /\ UNCHANGED <<units, config, file, reader_pc, reader_cause, block_chan, tree_chan,
                   spawned, returned, consumer, emitted, delivered, taken>>

----------------------------------------------------------------------------
\* The consumer of tree_receiver (it holds the receiver once read_trees returned).

ConsumerRecvOk ==
    /\ returned
    /\ consumer = "recv"
    /\ recv_timeout(tree_chan, tree_senders) = "Ok"
    /\ delivered' = delivered (+) SetToBag({RecvItem(tree_chan)})
    /\ tree_chan' = RecvRest(tree_chan)
    /\ UNCHANGED <<units, config, file, reader_pc, reader_cause, block_chan, spawned, returned,
                   decoder, consumer, emitted, taken>>

ConsumerRecvTimeout ==
    /\ returned
    /\ consumer = "recv"
    /\ recv_timeout(tree_chan, tree_senders) = "Timeout"
    /\ UNCHANGED vars

ConsumerRecvDisconnected ==
    /\ returned
    /\ consumer = "recv"
    /\ recv_timeout(tree_chan, tree_senders) = "Disconnected"
    /\ consumer' = "closed"
    /\ UNCHANGED <<units, config, file, reader_pc, reader_cause, block_chan, tree_chan,
                   spawned, returned, decoder, emitted, delivered, taken>>

\* The consumer stops early and drops every receiver of the tree channel.
ConsumerDrop ==
    /\ returned
    /\ consumer = "recv"
    /\ consumer' = "dropped"
    /\ UNCHANGED <<units, config, file, reader_pc, reader_cause, block_chan, tree_chan,
                   spawned, returned, decoder, emitted, delivered, taken>>

----------------------------------------------------------------------------
\* Every loop position a TreeDecoder can be at while it runs (the positions
\* fairness is stated for).
LoopPositions ==
    {Spawned, [pc |-> "spinning", trees |-> <<>>]} \cup
    {[pc |-> "send", trees |-> SubSeq(read_block(Block(b, n, 0, "ok")).trees, k, n)] :
        <<b, n, k>> \in {t \in (1..MaxBlocks) \X (1..MaxRecords) \X (1..MaxRecords) :
                           t[3] <= t[2]}}

MainNext == SpawnDecoder \/ ReturnReceiver

ReaderNext ==
    \/ ReaderNextBlock \/ ReaderEof \/ ReaderPanic
    \/ ReaderSendOk \/ ReaderSendTimeout \/ ReaderSendDisconnected

DecoderNext(d) ==
    \/ DecoderRecvOk(d) \/ DecoderRecvTimeout(d) \/ DecoderRecvDisconnected(d)
    \/ DecoderSendOk(d) \/ DecoderSendTimeout(d) \/ DecoderSendDisconnected(d)
    \/ DecoderSpin(d)

ConsumerReceive == ConsumerRecvOk \/ ConsumerRecvTimeout \/ ConsumerRecvDisconnected

Next ==
    \/ MainNext
    \/ ReaderNext
    \/ \E d \in BagToSet(decoder) : DecoderNext(d)
    \/ ConsumerReceive
    \/ ConsumerDrop

Spec == Init /\ [][Next]_vars

\* The threads are OS threads and each keeps running; decoders at the same
\* loop position are interchangeable.  The consumer keeps receiving unless it
\* drops the receiver, which nothing obliges it to do.
Fairness ==
    /\ WF_vars(MainNext)
    /\ WF_vars(ReaderNext)
    /\ \A d \in LoopPositions : WF_vars(DecoderNext(d))
    /\ WF_vars(ConsumerReceive)

FairSpec == Spec /\ Fairness

\* No thread can take a step that changes anything (the consumer's option to
\* drop its receiver aside): all that is left is timeouts and spinning.
Running ==
    \/ MainNext
    \/ ReaderNext
    \/ \E d \in BagToSet(decoder) : DecoderNext(d)
    \/ ConsumerReceive
Quiet == ~ENABLED <<Running>>_vars

----------------------------------------------------------------------------
\* Vocabulary of the properties.

RECURSIVE Flatten(_)
Flatten(ss) == IF ss = <<>> THEN <<>> ELSE Head(ss) \o Flatten(Tail(ss))

Range(s) == {s[i] : i \in DOMAIN s}
IsPrefix(s, t) == Len(s) <= Len(t) /\ SubSeq(t, 1, Len(s)) = s

\* The trees of the records of a block, in record order.
BlockTrees(block) == [k \in DOMAIN block.recs |-> block.recs[k].tree]
\* The trees of the records of the blocks f, in file order.
RecordTrees(f) == Flatten([i \in DOMAIN f |-> BlockTrees(f[i])])
\* Every record of the block decodes.
BlockDecodes(block) == \A k \in DOMAIN block.recs : block.recs[k].status = "ok"
\* The trees of the records that decode.
WholeTrees(f) ==
    {f[i].recs[k].tree : <<i, k>> \in
        {p \in (DOMAIN f) \X (1..MaxRecords) : p[2] \in DOMAIN f[p[1]].recs
                                               /\ f[p[1]].recs[p[2]].status = "ok"}}

\* Everything placed on the tree channel so far, block after block.
EmittedByBlock == Flatten(emitted)
EveryTreeEmitted == \A b \in DOMAIN file : emitted[b] = BlockTrees(file[b])

ReaderExited == reader_pc \in {"done", "panicked"}
DecodersExited == spawned = threads /\ decoders_alive = 0

----------------------------------------------------------------------------
C3_AtMostOnceAndWhole ==
    /\ \A b \in DOMAIN emitted : \A i, j \in DOMAIN emitted[b] :
          emitted[b][i] = emitted[b][j] => i = j
    /\ \A b \in BagToSet(taken) : CopiesIn(b, taken) = 1
    /\ \A t \in BagToSet(delivered) : CopiesIn(t, delivered) = 1
    /\ Range(EmittedByBlock) \subseteq WholeTrees(file)

\* A decoder is retrying a send on a full tree channel (a timeout is possible)
\* after the first tree of its block was accepted.
C3_Witness ==
    /\ \E d \in BagToSet(decoder) :
          /\ d.pc = "send"
          /\ Head(d.trees).rec = 2
          /\ emitted[Head(d.trees).blk] = <<Tree(Head(d.trees).blk, 1)>>
    /\ send_timeout(tree_chan, tree_decoder_channel_buffer_size, tree_receivers) = "Timeout"

----------------------------------------------------------------------------
\* The frame reader went through the whole file, and every block decodes.
ReadToEof == reader_cause = "eof"
EveryBlockDecodes == \A b \in DOMAIN file : BlockDecodes(file[b])
\* The blocks before the first one that fails to decode.
BeforeFirstFailure ==
    SubSeq(file, 1, IF EveryBlockDecodes THEN Len(file)
                    ELSE (CHOOSE b \in DOMAIN file :
                            /\ ~BlockDecodes(file[b])
                            /\ \A a \in 1..(b - 1) : BlockDecodes(file[a])) - 1)
\* The trees of the blocks f, as a multiset.
TreeBag(f) == SetToBag(Range(RecordTrees(f)))

C2_SingleWorkerDelivery ==
    (threads = 1 /\ consumer = "closed") => delivered = TreeBag(BeforeFirstFailure)

C4_ClosedAfterWholeFile ==
    (threads >= 1 /\ consumer = "closed"
        /\ EveryBlockDecodes /\ reader_cause # "truncated")
    => /\ ReadToEof /\ delivered = TreeBag(file)
       /\ reader_pc = "done" /\ DecodersExited

C8_ClosedImpliesAllExited ==
    (threads >= 1 /\ tree_senders = 0 /\ consumer # "dropped")
    => DecodersExited /\ ReaderExited

\* C8 (amended): whenever the tree channel is closed on the sender side and the
\* consumer can observe it, read_trees has returned and every decoder has
\* exited; the block reader has exited as well if some decoder ended on
\* Disconnected of the block channel (it may still run when every decoder
\* panicked, or when there is none).
C8_ClosedImpliesDecodersExited ==
    (tree_senders = 0 /\ consumer # "dropped")
    => /\ returned /\ DecodersExited
       /\ (Decoders({"done"}) > 0 => ReaderExited)

\* The consumer saw the channel closed after all four decoders ended normally.
C8_Witness ==
    /\ consumer = "closed" /\ threads = 4 /\ Decoders({"done"}) = 4
    /\ reader_pc = "done" /\ Len(file) = 2

\* C9: the block channel never holds more than B blocks, the tree channel never
\* more than T trees; a block read from the file is held by the reader until
\* the block channel accepts it, so at most B + 1 blocks are read and not yet
\* received by a worker.
BlocksNotReceived == Len(file) - BagCardinality(taken)
C9_Backpressure ==
    /\ Len(block_chan) <= block_reader_channel_buffer_size
    /\ Len(tree_chan) <= tree_decoder_channel_buffer_size
    /\ BlocksNotReceived <= block_reader_channel_buffer_size + 1
    /\ BlocksNotReceived - Len(block_chan) \in {0, 1}
    /\ reader_pc = "next" => BlocksNotReceived = Len(block_chan)

\* The block channel is full and the reader, whose send times out, holds one
\* more block.
C9_Witness ==
    /\ Len(block_chan) = block_reader_channel_buffer_size
    /\ reader_pc = "send"
    /\ send_timeout(block_chan, block_reader_channel_buffer_size, block_receivers)
          = "Timeout"
    /\ BlocksNotReceived = block_reader_channel_buffer_size + 1

\* C10: for any N, the trees of one block are placed on the tree channel in
\* the order of their records; trees of different blocks may interleave.
C10_BlockOrderKept ==
    \A b \in DOMAIN emitted : \A i, j \in DOMAIN emitted[b] :
        i < j => emitted[b][i].rec < emitted[b][j].rec

\* With N > 1: the first tree of block 1 was delivered, then the first tree of
\* block 2 and the second tree of block 1 were placed, in that order.
C10_Witness ==
    /\ threads > 1
    /\ BagIn(Tree(1, 1), delivered)
    /\ tree_chan = <<Tree(2, 1), Tree(1, 2)>>

----------------------------------------------------------------------------
\* C5 (as stated, by its final state): after the consumer dropped every
\* receiver of the tree channel, the pipeline comes to rest only with every
\* decoder and the block reader exited.
C5_CancelReachesAll ==
    (Quiet /\ consumer = "dropped") => (DecodersExited /\ ReaderExited)

\* C7 (as stated, by its final state): whatever the file, with a consumer that
\* keeps receiving the pipeline comes to rest only with the tree channel
\* observed closed.
C7_EventuallyClosed ==
    Quiet => consumer \in {"closed", "dropped"}

\* What holds of C5 and C7 under fair scheduling: the drop reaches every
\* thread, and the channel is eventually closed, unless a decoder is caught
\* for ever inside read_block.
CancelReachesAllUnlessSpinning ==
    (consumer = "dropped")
    ~> ((DecodersExited /\ ReaderExited) \/ Decoders({"spinning"}) > 0)
EventuallyClosedUnlessSpinning ==
    <>(consumer \in {"closed", "dropped"} \/ Decoders({"spinning"}) > 0)

----------------------------------------------------------------------------
\* The pipeline standing still, for the specifications of the single units.
PipelineUnused ==
    /\ threads = 0
    /\ block_reader_channel_buffer_size = 1
    /\ tree_decoder_channel_buffer_size = 1
    /\ file = <<>>
    /\ reader_pc = "done"
    /\ reader_cause = ""
    /\ block_chan = <<>>
    /\ tree_chan = <<>>
    /\ spawned = 0
    /\ returned = FALSE
    /\ decoder = EmptyBag
    /\ consumer = "recv"
    /\ emitted = [b \in 1..MaxBlocks |-> <<>>]
    /\ delivered = EmptyBag
    /\ taken = EmptyBag

----------------------------------------------------------------------------
\* SnappyReader (src/src/message_tree_dumper.rs): the decompressed stream of
\* one block, read through `impl Read for SnappyReader`.
\*
\* The block is its chunks, after the 16-byte header.  A chunk is the bytes it
\* decompresses to, or it is one that try_read_data or decompress_vec rejects.
\* The bytes of the block are numbered 1, 2, 3, ... through the chunks, so that
\* a byte read twice or skipped shows.

MaxChunks == 3      \* chunks in a block
MaxChunkLen == 2    \* bytes a chunk decompresses to
MaxRead == 3        \* bytes asked for by one read

\* The blocks explored: chunks of 0..MaxChunkLen bytes, the last one possibly
\* rejected.
ChunkLens == UNION {[1..n -> 0..MaxChunkLen] : n \in 0..MaxChunks}

RECURSIVE BytesBefore(_, _)
BytesBefore(lens, i) == IF i <= 1 THEN 0 ELSE BytesBefore(lens, i - 1) + lens[i - 1]

Chunks(lens, lastOk) ==
    [i \in DOMAIN lens |->
        [data |-> [k \in 1..lens[i] |-> BytesBefore(lens, i) + k],
         ok |-> (i < Len(lens)) \/ lastOk]]

SnappyBlocks == {Chunks(lens, ok) : lens \in ChunkLens, ok \in BOOLEAN}

\* SnappyReader::new: the cursor at the first chunk, the staging buffer empty.
\* reader = the chunks the cursor has passed; out = the bytes returned so far.
SnappyReaderNew(block) ==
    [pc |-> "idle", block |-> block, reader |-> 0, buf |-> <<>>,
     size |-> 0, ret |-> 0, calls |-> 0, out |-> <<>>]

\* (faulty variant: a new chunk replaces what is left in the staging buffer)
read_more_chunk_replacing(sr) ==
    IF sr.reader = Len(sr.block) THEN [result |-> "Ok", sr |-> sr]
    ELSE LET chunk == sr.block[sr.reader + 1] IN
         IF ~chunk.ok THEN [result |-> "Err", sr |-> sr]
         ELSE [result |-> "Ok",
               sr |-> [sr EXCEPT !.buf = chunk.data, !.reader = @ + 1]]

\* read_more_chunk: Ok(0) when the cursor is at the end of the block, an error
\* for a rejected chunk, else the chunk's bytes are appended to the buffer.
read_more_chunk(sr) ==
    IF sr.reader = Len(sr.block) THEN [result |-> "Ok", sr |-> sr]
    ELSE LET chunk == sr.block[sr.reader + 1] IN
         IF ~chunk.ok THEN [result |-> "Err", sr |-> sr]
         ELSE [result |-> "Ok",
               sr |-> [sr EXCEPT !.buf = @ \o chunk.data, !.reader = @ + 1]]

\* The head of one round of the loop of read:
\*   if self.buf.len() < size { self.read_more_chunk()?; }
Refilled(sr) ==
    IF Len(sr.buf) < sr.size THEN read_more_chunk(sr) ELSE [result |-> "Ok", sr |-> sr]

\* buf.split_to(size): the first `size` bytes, and what stays in the buffer.
SplitFront(buf, size) == SubSeq(buf, 1, size)
SplitRest(buf, size) == SubSeq(buf, size + 1, Len(buf))

\* read(&mut buf) is called with buf.len() = n.
SnappyReadCall ==
    /\ snappy.pc = "idle"
    /\ \E n \in 0..MaxRead :
          snappy' = [snappy EXCEPT !.pc = "loop", !.size = n, !.calls = 1]
    /\ UNCHANGED <<pipeline, frames, decoding, varint, filters>>

\* read_more_chunk()? fails: read returns the error.
SnappyReadError ==
    /\ snappy.pc = "loop"
    /\ Refilled(snappy).result = "Err"
    /\ snappy' = [snappy EXCEPT !.pc = "failed"]
    /\ UNCHANGED <<pipeline, frames, decoding, varint, filters>>

\* if self.buf.len() >= size { break; } ... split_to(size), Ok(b.len()).
SnappyReadBreak ==
    /\ snappy.pc = "loop"
    /\ Refilled(snappy).result = "Ok"
    /\ LET sr == Refilled(snappy).sr IN
         /\ Len(sr.buf) >= sr.size
         /\ snappy' = [sr EXCEPT !.pc = "idle",
                                 !.buf = SplitRest(sr.buf, sr.size),
                                 !.out = @ \o SplitFront(sr.buf, sr.size),
                                 !.ret = Len(SplitFront(sr.buf, sr.size))]
    /\ UNCHANGED <<pipeline, frames, decoding, varint, filters>>

\* if self.buf.is_empty() { return Ok(0); }
SnappyReadEmpty ==
    /\ snappy.pc = "loop"
    /\ Refilled(snappy).result = "Ok"
    /\ LET sr == Refilled(snappy).sr IN
         /\ Len(sr.buf) < sr.size
         /\ sr.buf = <<>>
         /\ snappy' = [sr EXCEPT !.pc = "idle", !.ret = 0]
    /\ UNCHANGED <<pipeline, frames, decoding, varint, filters>>

\* Neither: the loop goes round again.
SnappyReadAgain ==
    /\ snappy.pc = "loop"
    /\ Refilled(snappy).result = "Ok"
    /\ LET sr == Refilled(snappy).sr IN
         /\ Len(sr.buf) < sr.size
         /\ sr.buf # <<>>
         /\ snappy' = sr
    /\ UNCHANGED <<pipeline, frames, decoding, varint, filters>>

SnappyInit ==
    /\ PipelineUnused
    /\ snappy \in {SnappyReaderNew(b) : b \in SnappyBlocks}
    /\ frames = Unused /\ decoding = Unused /\ varint = Unused /\ filters = Unused

\* The rounds of the loop of a read call.
SnappyReadLoop ==
    SnappyReadError \/ SnappyReadBreak \/ SnappyReadEmpty \/ SnappyReadAgain

SnappyNext == SnappyReadCall \/ SnappyReadLoop

SnappySpec == SnappyInit /\ [][SnappyNext]_vars

\* The read call can make no round that changes anything.
SnappyAtRest == ~ENABLED <<SnappyReadLoop>>_vars

\* The bytes of the whole block, and those the cursor has not reached.
RECURSIVE ChunkBytes(_, _)
ChunkBytes(block, from) ==
    IF from > Len(block) THEN <<>>
    ELSE block[from].data \o ChunkBytes(block, from + 1)

SnappyExhausted == snappy.reader = Len(snappy.block)

----------------------------------------------------------------------------
\* C11 (as stated, by its final state): a read always returns; with every
\* chunk of the block consumed and a residue left in the staging buffer, the
\* reader comes to rest only outside the read call, the call having returned.
C11_ShortResidueReturns ==
    (SnappyAtRest /\ SnappyExhausted /\ snappy.buf # <<>>) => snappy.pc = "idle"

\* What holds instead: a read call returns a count or an error except in that
\* one case, where the loop goes round for ever.
ReadReturnsUnlessShortResidue ==
    SnappyAtRest
    => \/ snappy.pc \in {"idle", "failed"}
       \/ (SnappyExhausted /\ 0 < Len(snappy.buf) /\ Len(snappy.buf) < snappy.size)

----------------------------------------------------------------------------
\* MessageBlockReader (src/src/message_tree_dumper.rs) and try_read_data
\* (src/src/message_tree.rs): the frames of one file, read through a
\* BufReader<File>.
\*
\* A file is described by its layout: the bytes of the magic that are there
\* (`head` of them) and whether they are -1, the body lengths of its whole
\* frames, and what follows the last whole frame (`tail`): nothing, 1..3 bytes
\* of a length, or a length `len` with only `bytes` < len bytes of body.
\* The reader is described by offsets: `pos` bytes were handed out, `buffered`
\* more are in the BufReader's buffer.

MaxFrames == 3          \* whole frames in a file
Capacity == 1048576     \* BufReader::with_capacity(1024 * 1024, ...)

\* Body lengths: small ones, one that leaves 2 bytes of the first buffer
\* filling after the body, one that ends with it, one larger than the buffer.
BodyLens == {0, 1, Capacity - 10, Capacity - 8, 2 * Capacity}

NoTail == [kind |-> "none", bytes |-> 0, len |-> 0]
Tails ==
    {NoTail}
    \cup {[kind |-> "length", bytes |-> k, len |-> 0] : k \in 1..3}
    \cup {[kind |-> "body", bytes |-> 0, len |-> 1],
          [kind |-> "body", bytes |-> 5, len |-> Capacity]}

Files ==
    {[magic |-> "short", head |-> h, bodies |-> <<>>, tail |-> NoTail] : h \in 0..3}
    \cup {[magic |-> "other", head |-> 4, bodies |-> <<>>, tail |-> NoTail]}
    \cup {[magic |-> "valid", head |-> 4, bodies |-> b, tail |-> t] :
            b \in UNION {[1..n -> BodyLens] : n \in 0..MaxFrames}, t \in Tails}

RECURSIVE FramesBytes(_)
FramesBytes(bodies) ==
    IF bodies = <<>> THEN 0 ELSE 4 + Head(bodies) + FramesBytes(Tail(bodies))

FileSize(f) ==
    f.head + FramesBytes(f.bodies)
    + (IF f.tail.kind = "length" THEN f.tail.bytes
       ELSE IF f.tail.kind = "body" THEN 4 + f.tail.bytes ELSE 0)

\* The length prefix of frame i (the cut frame after the last whole one).
LengthAt(f, i) == IF i <= Len(f.bodies) THEN f.bodies[i] ELSE f.tail.len

Min(a, b) == IF a <= b THEN a ELSE b

\* BufReader::read with a buffer of k bytes on a file of `size` bytes: with
\* bytes buffered it hands out those, at most k; with none it reads the file,
\* directly if k >= capacity, else through a refill of the buffer.
BufRead(r, k, size) ==
    IF r.buffered > 0
    THEN LET n == Min(k, r.buffered)
         IN  [n |-> n, r |-> [pos |-> r.pos + n, buffered |-> r.buffered - n]]
    ELSE IF k >= Capacity
    THEN LET n == Min(k, size - r.pos)
         IN  [n |-> n, r |-> [pos |-> r.pos + n, buffered |-> 0]]
    ELSE LET filled == Min(Capacity, size - r.pos)
             n == Min(k, filled)
         IN  [n |-> n, r |-> [pos |-> r.pos + n, buffered |-> filled - n]]

\* read_exact: read until the k bytes are there; a read of 0 bytes before
\* that is an error (UnexpectedEof).
RECURSIVE read_exact(_, _, _)
read_exact(r, k, size) ==
    IF k = 0 THEN [ok |-> TRUE, r |-> r]
    ELSE LET rd == BufRead(r, k, size) IN
         IF rd.n = 0 THEN [ok |-> FALSE, r |-> rd.r]
         ELSE read_exact(rd.r, k - rd.n, size)

\* try_read_data on the file reader, at the start of frame i: None when the
\* read of the length gives 0 bytes, a panic when it gives 1..3, an error when
\* read_exact of the body fails, else the body.
try_read_data(f, r, i) ==
    LET rd == BufRead(r, 4, FileSize(f)) IN
    IF rd.n = 0 THEN [outcome |-> "None", len |-> 0, r |-> rd.r]
    ELSE IF rd.n # 4 THEN [outcome |-> "panic", len |-> 0, r |-> rd.r]
    ELSE LET body == read_exact(rd.r, LengthAt(f, i), FileSize(f)) IN
         IF body.ok THEN [outcome |-> "Some", len |-> LengthAt(f, i), r |-> body.r]
         ELSE [outcome |-> "Err", len |-> 0, r |-> body.r]

\* Before MessageBlockReader::open.
FrameReaderNew(f) ==
    [pc |-> "open", file |-> f, r |-> [pos |-> 0, buffered |-> 0],
     emitted |-> <<>>, cause |-> ""]

\* open: read_i32 of the magic succeeds and the magic is -1.
MessageBlockReaderOpen ==
    /\ frames.pc = "open"
    /\ LET magic == read_exact(frames.r, 4, FileSize(frames.file)) IN
         /\ magic.ok
         /\ frames.file.magic = "valid"
         /\ frames' = [frames EXCEPT !.pc = "iter", !.r = magic.r]
    /\ UNCHANGED <<pipeline, snappy, decoding, varint, filters>>

\* open: read_i32 fails (the file has fewer than 4 bytes); open returns the
\* error and `expect("open message block reader")` in read_trees panics.
MessageBlockReaderOpenErr ==
    /\ frames.pc = "open"
    /\ LET magic == read_exact(frames.r, 4, FileSize(frames.file)) IN
         /\ ~magic.ok
         /\ frames' = [frames EXCEPT !.pc = "panicked", !.r = magic.r,
                                     !.cause = "open"]
    /\ UNCHANGED <<pipeline, snappy, decoding, varint, filters>>

\* open: assert_eq!(magic_number, -1) panics.
MessageBlockReaderOpenBadMagic ==
    /\ frames.pc = "open"
    /\ LET magic == read_exact(frames.r, 4, FileSize(frames.file)) IN
         /\ magic.ok
         /\ frames.file.magic # "valid"
         /\ frames' = [frames EXCEPT !.pc = "panicked", !.r = magic.r,
                                     !.cause = "magic"]
    /\ UNCHANGED <<pipeline, snappy, decoding, varint, filters>>

\* The next call of the iterator of into_iter.
NextFrame == try_read_data(frames.file, frames.r, Len(frames.emitted) + 1)

\* It yields a block.
BlockIterSome ==
    /\ frames.pc = "iter"
    /\ NextFrame.outcome = "Some"
    /\ frames' = [frames EXCEPT
                    !.r = NextFrame.r,
                    !.emitted = Append(@, [no |-> Len(frames.emitted) + 1,
                                           len |-> NextFrame.len])]
    /\ UNCHANGED <<pipeline, snappy, decoding, varint, filters>>

\* It yields None: the sequence of blocks ends.
BlockIterNone ==
    /\ frames.pc = "iter"
    /\ NextFrame.outcome = "None"
    /\ frames' = [frames EXCEPT !.pc = "done", !.r = NextFrame.r, !.cause = "eof"]
    /\ UNCHANGED <<pipeline, snappy, decoding, varint, filters>>

\* panic!("read length error"): the read of the length gave 1..3 bytes, at the
\* end of the file ("truncated") or with a whole length still to come
\* ("short_read").
BlockIterShortLength ==
    /\ frames.pc = "iter"
    /\ NextFrame.outcome = "panic"
    /\ frames' = [frames EXCEPT
                    !.pc = "panicked", !.r = NextFrame.r,
                    !.cause = IF FileSize(frames.file) - (frames.r.pos) >= 4
                              THEN "short_read" ELSE "truncated"]
    /\ UNCHANGED <<pipeline, snappy, decoding, varint, filters>>

\* read_exact of the body fails and `expect("try read data")` panics.
BlockIterShortBody ==
    /\ frames.pc = "iter"
    /\ NextFrame.outcome = "Err"
    /\ frames' = [frames EXCEPT !.pc = "panicked", !.r = NextFrame.r,
                                !.cause = "truncated"]
    /\ UNCHANGED <<pipeline, snappy, decoding, varint, filters>>

FrameInit ==
    /\ PipelineUnused
    /\ frames \in {FrameReaderNew(f) : f \in Files}
    /\ snappy = Unused /\ decoding = Unused /\ varint = Unused /\ filters = Unused

FrameNext ==
    \/ MessageBlockReaderOpen \/ MessageBlockReaderOpenErr
    \/ MessageBlockReaderOpenBadMagic
    \/ BlockIterSome \/ BlockIterNone \/ BlockIterShortLength \/ BlockIterShortBody

FrameSpec == FrameInit /\ [][FrameNext]_vars

\* The whole frames of the file, as the iterator should emit them.
WholeFrames(f) == [i \in DOMAIN f.bodies |-> [no |-> i, len |-> f.bodies[i]]]

\* The frame reader is through with the file.
FramesAtRest == frames.pc \in {"done", "panicked"}

----------------------------------------------------------------------------
\* C13 (as stated): after a valid magic the blocks emitted are the bodies of
\* the frames in file order; a file that ends at a frame boundary ends the
\* sequence successfully, every frame emitted; a file that ends after 1..3
\* bytes of a length or inside a body ends it by a panic, and no block is
\* emitted for the cut frame.
C13_FramesThenCleanEnd ==
    frames.file.magic = "valid"
    => /\ IsPrefix(frames.emitted, WholeFrames(frames.file))
       /\ (FramesAtRest /\ frames.file.tail = NoTail)
            => (frames.pc = "done" /\ frames.emitted = WholeFrames(frames.file))
       /\ (FramesAtRest /\ frames.file.tail # NoTail) => frames.pc = "panicked"

\* What holds instead: the same, unless a read of a length prefix was served
\* 1..3 bytes from the buffer while the file went on.
FramesUnlessShortRead ==
    frames.file.magic = "valid"
    => /\ IsPrefix(frames.emitted, WholeFrames(frames.file))
       /\ frames.pc = "done"
            => (frames.file.tail = NoTail /\ frames.emitted = WholeFrames(frames.file))
       /\ (FramesAtRest /\ frames.file.tail = NoTail)
            => (frames.pc = "done" \/ frames.cause = "short_read")
       /\ (FramesAtRest /\ frames.file.tail # NoTail) => frames.pc = "panicked"

\* C14 (as stated): on a file of zero bytes the reader ends cleanly, without a
\* panic and without a block.
C14_EmptyFileEndsCleanly ==
    (FileSize(frames.file) = 0 /\ FramesAtRest)
    => (frames.pc = "done" /\ frames.emitted = <<>>)

\* A file with the magic and nothing else does end cleanly.
MagicOnlyEndsCleanly ==
    (frames.file.magic = "valid" /\ FileSize(frames.file) = 4 /\ FramesAtRest)
    => (frames.pc = "done" /\ frames.emitted = <<>>)

----------------------------------------------------------------------------
\* MessageTree::decode (src/src/message_tree.rs): one record, decoded.
\*
\* A record is its header and the messages after it, as the tokens of the
\* stream: a tag byte with the fields that follow it.  For 't' these are ts,
\* type and name; for 'T' status, data and duration (read by
\* decode_transaction once the inner decode_message has returned); for a leaf
\* ts, type, name, status and data.  `whole` is FALSE when the record ends
\* inside the fields.  Texts are sequences of characters.

MaxTokens == 5      \* tags in a record

UploadMetric == <<"U", "p", "l", "o", "a", "d", "M", "e", "t", "r", "i", "c">>
System == <<"S", "y", "s", "t", "e", "m">>
Url == <<"U", "R", "L">>

\* The (type, name) of the transactions explored: renamed for its type,
\* renamed for its name, and not renamed (the name a proper prefix of the
\* pattern).
TransactionHeads ==
    {<<System, <<"a">>>>, <<Url, UploadMetric \o <<"s">>>>, <<Url, SubSeq(UploadMetric, 1, 6)>>}

Token(tag, ty, name) == [tag |-> tag, ty |-> ty, name |-> name, whole |-> TRUE]

\* The tokens a record is made of; an unsupported tag and a cut token come
\* last in a record, since decoding stops there.
Alphabet ==
    {Token("t", h[1], h[2]) : h \in TransactionHeads}
    \cup {Token(tag, <<>>, <<>>) : tag \in {"T", "E", "M", "H", "L"}}

WholeBodies == UNION {[1..n -> Alphabet] : n \in 0..MaxTokens}

Bodies ==
    WholeBodies
    \cup {[b EXCEPT ![Len(b)].whole = FALSE] : b \in WholeBodies \ {<<>>}}
    \cup {Append(b, Token("?", <<>>, <<>>)) :
            b \in {w \in WholeBodies : Len(w) < MaxTokens}}

Records ==
    {[header |-> "NT1", body |-> b] : b \in Bodies}
    \cup {[header |-> h, body |-> <<>>] : h \in {"other", "cut"}}

\* A decoded message: its kind, the place of its tag in the record (which
\* tells messages apart), type and name, and for a transaction its children.
Message(kind, at, ty, name) ==
    [kind |-> kind, at |-> at, ty |-> ty, name |-> name, children |-> <<>>]

\* Message::default() / MessageTree::default().
DefaultMessage == Message("Transaction", 0, <<>>, <<>>)
DefaultTree ==
    [transactions |-> <<>>, events |-> <<>>, metrics |-> <<>>,
     heartbeats |-> <<>>, traces |-> <<>>, message |-> DefaultMessage]

\* Option<InnerTransaction>.
None == [some |-> FALSE, t |-> DefaultMessage]
Some(t) == [some |-> TRUE, t |-> t]

\* The stream: `pos` tags were read; `unread` when the fields of the last
\* tag read are still to be read.
Stream(toks) == [toks |-> toks, pos |-> 0, unread |-> FALSE]

\* (faulty variant: at the end of the record the fields read as empty)
ReadFields_past_end(buf) ==
    IF buf.pos > 0 /\ buf.toks[buf.pos].whole
    THEN [ok |-> TRUE, tok |-> buf.toks[buf.pos], buf |-> [buf EXCEPT !.unread = FALSE]]
    ELSE [ok |-> FALSE, tok |-> Token("", <<>>, <<>>), buf |-> buf]

\* Reading the fields that follow the last tag (read_varint, read_string,
\* read_bytes): an error at the end of the record or inside a cut token.
ReadFields(buf) ==
    IF buf.unread /\ buf.toks[buf.pos].whole
    THEN [ok |-> TRUE, tok |-> buf.toks[buf.pos], buf |-> [buf EXCEPT !.unread = FALSE]]
    ELSE [ok |-> FALSE, tok |-> Token("", <<>>, <<>>), buf |-> buf]

\* What a decode function hands back: its Fallible result (or a panic), and
\* the tree, the parent transaction and the stream as it left them.
Ret(result, tree, transaction, buf) ==
    [result |-> result, tree |-> tree, transaction |-> transaction, buf |-> buf]

\* (faulty variant: the pattern must be the whole name)
starts_with_all(text, pattern) == text = pattern

\* str::starts_with.
starts_with(text, pattern) ==
    Len(text) >= Len(pattern) /\ SubSeq(text, 1, Len(pattern)) = pattern

\* (faulty variant: the child is put in front of the children)
add_child_front(transaction, message) ==
    IF transaction.some
    THEN Some([transaction.t EXCEPT !.children = <<message>> \o @])
    ELSE transaction

\* if let Some(t) = parent_transaction { t.add_child(message) }
add_child(transaction, message) ==
    IF transaction.some
    THEN Some([transaction.t EXCEPT !.children = Append(@, message)])
    ELSE transaction

\* (faulty variant: the transaction is put in front of the catalogue)
add_transaction_front(tree, transaction) ==
    [tree EXCEPT !.transactions = <<transaction>> \o @]

\* MessageTree::add_transaction.
add_transaction(tree, transaction) ==
    [tree EXCEPT !.transactions = Append(@, transaction)]

\* decode_event, decode_metric, decode_heartbeat, decode_trace: read the
\* fields, add the message to the parent's children and to its catalogue.
decode_leaf(kind, catalogue, tree, parent_transaction, buf) ==
    LET fields == ReadFields(buf) IN
    IF ~fields.ok THEN Ret("Err", tree, parent_transaction, buf)
    ELSE LET rc == Message(kind, buf.pos, <<>>, <<>>) IN
         Ret("Ok", [tree EXCEPT ![catalogue] = Append(@, rc)],
             add_child(parent_transaction, rc), fields.buf)

decode_event(tree, parent_transaction, buf) ==
    decode_leaf("Event", "events", tree, parent_transaction, buf)
decode_metric(tree, parent_transaction, buf) ==
    decode_leaf("Metric", "metrics", tree, parent_transaction, buf)
decode_heartbeat(tree, parent_transaction, buf) ==
    decode_leaf("Heartbeat", "heartbeats", tree, parent_transaction, buf)
decode_trace(tree, parent_transaction, buf) ==
    decode_leaf("Trace", "traces", tree, parent_transaction, buf)

\* The name a transaction is stored under.
StoredName(ty, name) ==
    IF ty = System \/ starts_with(name, UploadMetric) THEN UploadMetric ELSE name

RECURSIVE decode_message(_, _, _)
RECURSIVE decode_transaction(_, _, _)

\* decode_transaction: the 't' tag has been read.  Read ts, type and name,
\* decode the messages up to the 'T' tag into the new transaction, read status,
\* data and duration, then add the transaction to its parent's children and
\* to the catalogue.
decode_transaction(tree, parent_transaction, buf) ==
    LET head == ReadFields(buf) IN
    IF ~head.ok THEN Ret("Err", tree, parent_transaction, buf)
    ELSE LET transaction == Message("Transaction", buf.pos, head.tok.ty,
                                    StoredName(head.tok.ty, head.tok.name))
             inner == decode_message(tree, Some(transaction), head.buf)
             close == ReadFields(inner.buf)
         IN  IF inner.result # "Ok"
             THEN Ret(inner.result, inner.tree, parent_transaction, inner.buf)
             ELSE IF ~close.ok
             THEN Ret("Err", inner.tree, parent_transaction, inner.buf)
             ELSE Ret("Ok", add_transaction(inner.tree, inner.transaction.t),
                      add_child(parent_transaction, inner.transaction.t), close.buf)

\* decode_message: read a tag and dispatch, until the end of the record
\* (Ok) or a 'T' tag (Ok); an unsupported tag panics (unimplemented!).
decode_message(tree, transaction, buf) ==
    IF buf.pos = Len(buf.toks) THEN Ret("Ok", tree, transaction, buf)
    ELSE LET ch == buf.toks[buf.pos + 1].tag
             at == [buf EXCEPT !.pos = @ + 1, !.unread = TRUE]
             r == CASE ch = "t" -> decode_transaction(tree, transaction, at)
                    [] ch = "E" -> decode_event(tree, transaction, at)
                    [] ch = "M" -> decode_metric(tree, transaction, at)
                    [] ch = "H" -> decode_heartbeat(tree, transaction, at)
                    [] ch = "L" -> decode_trace(tree, transaction, at)
                    [] OTHER -> Ret("Panic", tree, transaction, at)
         IN  IF ch = "T" THEN Ret("Ok", tree, transaction, at)
             ELSE IF r.result # "Ok" THEN r
             ELSE decode_message(r.tree, r.transaction, r.buf)

\* decode_header: the version and the ten strings.
decode_header(header) ==
    IF header = "cut" THEN "Err" ELSE IF header # "NT1" THEN "Panic" ELSE "Ok"

Last(seq) == seq[Len(seq)]

\* (faulty variant: the events come before the transactions)
Representative_events_first(tree) ==
    IF tree.events # <<>> THEN <<Last(tree.events)>>
    ELSE IF tree.transactions # <<>> THEN <<Last(tree.transactions)>>
    ELSE IF tree.metrics # <<>> THEN <<Last(tree.metrics)>>
    ELSE IF tree.heartbeats # <<>> THEN <<Last(tree.heartbeats)>>
    ELSE IF tree.traces # <<>> THEN <<Last(tree.traces)>>
    ELSE <<>>

\* The choice of tree.message at the end of decode; <<>> where the code has
\* unreachable!().
Representative(tree) ==
    IF tree.transactions # <<>> THEN <<Last(tree.transactions)>>
    ELSE IF tree.events # <<>> THEN <<Last(tree.events)>>
    ELSE IF tree.metrics # <<>> THEN <<Last(tree.metrics)>>
    ELSE IF tree.heartbeats # <<>> THEN <<Last(tree.heartbeats)>>
    ELSE IF tree.traces # <<>> THEN <<Last(tree.traces)>>
    ELSE <<>>

\* MessageTree::decode.
decode(record) ==
    IF decode_header(record.header) # "Ok"
    THEN [result |-> decode_header(record.header), tree |-> DefaultTree]
    ELSE LET r == decode_message(DefaultTree, None, Stream(record.body)) IN
         IF r.result # "Ok" THEN [result |-> r.result, tree |-> r.tree]
         ELSE IF Representative(r.tree) = <<>>
         THEN [result |-> "Panic", tree |-> r.tree]
         ELSE [result |-> "Ok",
               tree |-> [r.tree EXCEPT !.message = Representative(r.tree)[1]]]

\* A record about to be decoded.
DecodeCall(record) ==
    [pc |-> "call", record |-> record, result |-> "", tree |-> DefaultTree]

\* The record once decode has come back.
Returned(result) ==
    [decoding EXCEPT !.pc = "returned", !.result = result,
                     !.tree = decode(decoding.record).tree]

\* decode returns Ok(tree).
DecodeOk ==
    /\ decoding.pc = "call"
    /\ decode(decoding.record).result = "Ok"
    /\ decoding' = Returned("Ok")
    /\ UNCHANGED <<pipeline, snappy, frames, varint, filters>>

\* decode returns an error.
DecodeErr ==
    /\ decoding.pc = "call"
    /\ decode(decoding.record).result = "Err"
    /\ decoding' = Returned("Err")
    /\ UNCHANGED <<pipeline, snappy, frames, varint, filters>>

\* decode panics.
DecodePanic ==
    /\ decoding.pc = "call"
    /\ decode(decoding.record).result = "Panic"
    /\ decoding' = Returned("Panic")
    /\ UNCHANGED <<pipeline, snappy, frames, varint, filters>>

DecodeInit ==
    /\ PipelineUnused
    /\ decoding \in {DecodeCall(r) : r \in Records}
    /\ snappy = Unused /\ frames = Unused /\ varint = Unused /\ filters = Unused

DecodeNext == DecodeOk \/ DecodeErr \/ DecodePanic

DecodeSpec == DecodeInit /\ [][DecodeNext]_vars

\* The record read as brackets: 't' opens a transaction, 'T' closes one.
Toks == decoding.record.body
Tags == [k \in 1..Len(Toks) |-> Toks[k].tag]
TagsBefore(tag, i) == Cardinality({k \in 1..(i - 1) : Toks[k].tag = tag})
DepthBefore(i) == TagsBefore("t", i) - TagsBefore("T", i)

\* What the decoder gets to: all the record, or up to the first 'T' met
\* with no transaction open.
Consumed ==
    LET stops == {j \in 1..Len(Toks) : Toks[j].tag = "T" /\ DepthBefore(j) = 0}
    IN  IF stops = {} THEN Len(Toks)
        ELSE CHOOSE j \in stops : \A k \in stops : j <= k

\* The 'T' matching the 't' at i (0 when there is none), the 't' matching
\* the 'T' at j, and the 'T' tags that close a transaction.
CloseOf(i) ==
    LET after == {j \in (i + 1)..Consumed :
                    Toks[j].tag = "T" /\ DepthBefore(j) = DepthBefore(i) + 1}
    IN  IF after = {} THEN 0 ELSE CHOOSE j \in after : \A k \in after : j <= k
OpenOf(j) ==
    LET before == {i \in 1..(j - 1) :
                     Toks[i].tag = "t" /\ DepthBefore(i) = DepthBefore(j) - 1}
    IN  CHOOSE i \in before : \A k \in before : k <= i
Closings == {j \in 1..Consumed : Toks[j].tag = "T" /\ DepthBefore(j) > 0}

RECURSIVE Ascending(_)
Ascending(S) ==
    IF S = {} THEN <<>>
    ELSE LET m == CHOOSE x \in S : \A y \in S : x <= y
         IN  <<m>> \o Ascending(S \ {m})

\* Where in the record the messages of a list came from.
Ats(messages) == [k \in 1..Len(messages) |-> messages[k].at]

\* C15: when decode succeeds, tree.transactions lists the transactions in
\* the order of their closing 'T' tags, so a nested transaction comes before
\* the one that encloses it and the one closed last is the last element.
C15_TransactionsInClosingOrder ==
    (decoding.pc = "returned" /\ decoding.result = "Ok") =>
        LET done == decoding.tree.transactions IN
        /\ Ats(done) = [k \in 1..Cardinality(Closings) |-> OpenOf(Ascending(Closings)[k])]
        /\ \A p, q \in 1..Len(done) :
              (done[q].at < done[p].at /\ done[p].at < CloseOf(done[q].at)) => p < q

C15_Witness ==
    /\ decoding.pc = "returned" /\ decoding.result = "Ok"
    /\ Tags = <<"t", "t", "T", "t", "T", "T">> \/ Tags = <<"t", "t", "T", "T", "E">>
    /\ Ats(decoding.tree.transactions) = <<2, 1>>

\* The messages directly inside the transaction opened at i, and the place
\* where a message is complete: a leaf at its own tag, a transaction at its
\* closing 'T'.
InsideOf(i) ==
    {j \in (i + 1)..(CloseOf(i) - 1) :
        Toks[j].tag # "T" /\ DepthBefore(j) = DepthBefore(i) + 1}
CompletedAt(j) == IF Toks[j].tag = "t" THEN CloseOf(j) ELSE j
InCompletionOrder(S) ==
    LET order == Ascending({CompletedAt(j) : j \in S})
    IN  [k \in 1..Cardinality(S) |-> CHOOSE j \in S : CompletedAt(j) = order[k]]
KindOf(tag) ==
    CASE tag = "t" -> "Transaction" [] tag = "E" -> "Event" [] tag = "M" -> "Metric"
      [] tag = "H" -> "Heartbeat" [] tag = "L" -> "Trace" [] OTHER -> ""

\* C16: when decode succeeds, the children of a transaction are exactly the
\* messages decoded between its 't' and its matching 'T' one level below it,
\* in the order they were completed; a deeper message is a child of the
\* innermost open transaction only, and a message decoded with no transaction
\* open is a child of none.
C16_ChildrenAreTheDirectMessages ==
    (decoding.pc = "returned" /\ decoding.result = "Ok") =>
        LET done == decoding.tree.transactions IN
        /\ \A p \in 1..Len(done) :
              /\ Ats(done[p].children) = InCompletionOrder(InsideOf(done[p].at))
              /\ \A c \in 1..Len(done[p].children) :
                    LET child == done[p].children[c] IN
                    /\ child.kind = KindOf(Toks[child.at].tag)
                    /\ child.kind = "Transaction" =>
                          \E q \in 1..Len(done) : done[q] = child
        /\ \A j \in 1..Consumed : \A p, q \in 1..Len(done) :
              /\ DepthBefore(j) = 0 =>
                    \A c \in 1..Len(done[p].children) : done[p].children[c].at # j
              /\ (\E c \in 1..Len(done[p].children) : done[p].children[c].at = j)
                 /\ (\E c \in 1..Len(done[q].children) : done[q].children[c].at = j)
                    => p = q

C16_Witness ==
    /\ decoding.pc = "returned" /\ decoding.result = "Ok"
    /\ Tags = <<"t", "t", "E", "T", "T">>
    /\ Ats(decoding.tree.transactions) = <<2, 1>>
    /\ Ats(decoding.tree.transactions[1].children) = <<3>>
    /\ Ats(decoding.tree.transactions[2].children) = <<2>>

\* C17: when decode succeeds, tree.message is the last element of the first
\* non-empty catalogue in the order transactions, events, metrics, heartbeats,
\* traces.
C17_MessageIsLastOfFirstNonEmpty ==
    (decoding.pc = "returned" /\ decoding.result = "Ok") =>
        LET tree == decoding.tree
            catalogues == <<tree.transactions, tree.events, tree.metrics,
                            tree.heartbeats, tree.traces>>
        IN  \E k \in 1..5 :
               /\ catalogues[k] # <<>>
               /\ \A h \in 1..(k - 1) : catalogues[h] = <<>>
               /\ tree.message = Last(catalogues[k])

C17_Witness ==
    /\ decoding.pc = "returned" /\ decoding.result = "Ok"
    /\ Tags = <<"L", "M", "E", "E", "H">>
    /\ decoding.tree.message.kind = "Event" /\ decoding.tree.message.at = 4

\* C18: a record with a valid header and no message fails with an error
\* result of decode, and no tree is produced.
C18_EmptyRecordIsAnError ==
    (decoding.pc = "returned" /\ decoding.record.header = "NT1" /\ Toks = <<>>) =>
        decoding.result = "Err"

\* What the code does instead: with all catalogues empty decode panics.
EmptyRecordPanics ==
    (decoding.pc = "returned" /\ decoding.record.header = "NT1" /\ Toks = <<>>) =>
        decoding.result = "Panic"

\* A record of whole, supported tokens in which no 'T' comes with no
\* transaction open, and the number of transactions open at its end.
Sound ==
    /\ decoding.record.header = "NT1"
    /\ \A j \in 1..Len(Toks) :
          /\ Toks[j].whole /\ Toks[j].tag # "?"
          /\ ~(Toks[j].tag = "T" /\ DepthBefore(j) = 0)
OpenAtEnd == DepthBefore(Len(Toks) + 1)

\* C19 as stated: the record ending with no transaction open makes decode
\* succeed; the record ending with a transaction open makes decode fail.
C19_EndOfRecord ==
    (decoding.pc = "returned" /\ Sound) =>
        /\ OpenAtEnd = 0 => decoding.result = "Ok"
        /\ OpenAtEnd > 0 => decoding.result = "Err"

\* C19: the record ending with no transaction open makes decode succeed when
\* at least one message was decoded; the record ending with a transaction
\* open makes decode fail, and no tree is produced.
C19_EndOfRecordAfterAMessage ==
    (decoding.pc = "returned" /\ Sound) =>
        /\ (OpenAtEnd = 0 /\ Toks # <<>>) => decoding.result = "Ok"
        /\ OpenAtEnd > 0 => decoding.result = "Err"

C19_Witness ==
    /\ decoding.pc = "returned" /\ Sound
    /\ Tags = <<"t", "t", "E", "T">>
    /\ decoding.result = "Err"

\* Every transaction of the tree: the catalogue, the children lists and
\* tree.message.
AllTransactions ==
    LET done == decoding.tree.transactions
        nested == UNION {{done[p].children[c] : c \in 1..Len(done[p].children)}
                           : p \in 1..Len(done)}
    IN  {m \in {done[p] : p \in 1..Len(done)} \cup nested \cup {decoding.tree.message} :
            m.kind = "Transaction"}

\* C20: when decode succeeds, a transaction whose type is "System" or whose
\* name on the wire starts with "UploadMetric" is stored under the name
\* "UploadMetric", and any other transaction under its name on the wire.
C20_UploadMetricNames ==
    (decoding.pc = "returned" /\ decoding.result = "Ok") =>
        \A m \in AllTransactions :
            LET wire == Toks[m.at] IN
            /\ m.ty = wire.ty
            /\ m.name = IF \/ wire.ty = System
                           \/ /\ Len(wire.name) >= 12
                              /\ SubSeq(wire.name, 1, 12) = UploadMetric
                        THEN UploadMetric ELSE wire.name

C20_Witness ==
    /\ decoding.pc = "returned" /\ decoding.result = "Ok"
    /\ Tags = <<"t", "T", "t", "t", "T", "T">> \/ Tags = <<"t", "t", "T", "T", "E">>
    /\ \E m \in AllTransactions :
          /\ Toks[m.at].ty = Url /\ Toks[m.at].name = UploadMetric \o <<"s">>
          /\ m.name = UploadMetric
    /\ \E m \in AllTransactions :
          \E c \in 1..Len(m.children) :
              /\ Toks[m.children[c].at].ty = System
              /\ Toks[m.children[c].at].name = <<"a">>
              /\ m.children[c].name = UploadMetric

C20_WitnessUnchanged ==
    /\ decoding.pc = "returned" /\ decoding.result = "Ok"
    /\ \E m \in AllTransactions :
          m.ty = Url /\ m.name = SubSeq(UploadMetric, 1, 6)

\* ---------------------------------------------------------------------------
\* read_varint (message_tree.rs).  A u64 is the set of its one bits, so that
\* all 64 bits are kept; a byte is its continuation bit and the set of the
\* one bits among its low seven.
\* ---------------------------------------------------------------------------

\* The low seven bits tried: 0x00, 0x01, 0x7f.
Lows == {{}, {0}, 0..6}
Byte(more, low) == [more |-> more, low |-> low]

\* (faulty variant: the shift amount wraps around, as `<<` does in release
\* builds)
checked_shl_wrapping(bits, shift) ==
    <<{i + (shift % 64) : i \in bits} \cap 0..63>>

\* u64::checked_shl: <<>> is None; bits shifted past bit 63 are dropped.
checked_shl(bits, shift) ==
    IF shift >= 64 THEN <<>> ELSE <<{i + shift : i \in bits} \cap 0..63>>

\* A call of read_varint at the top of its loop.
ReadVarintCall == [pc |-> "loop", bytes |-> <<>>, n |-> {}, shift |-> 0, ret |-> {}]

\* data.read_u8()? at the end of the data.
ReadVarintEof ==
    /\ varint.pc = "loop"
    /\ varint' = [varint EXCEPT !.pc = "failed"]
    /\ UNCHANGED <<pipeline, snappy, frames, decoding, filters>>

\* A byte below 0x80: return n | (b << shift), or 0 when the shift is None.
ReadVarintLast ==
    /\ varint.pc = "loop"
    /\ \E low \in Lows :
          LET b == checked_shl(low, varint.shift) IN
          varint' = [varint EXCEPT !.pc = "returned",
                                   !.bytes = Append(@, Byte(FALSE, low)),
                                   !.ret = IF b = <<>> THEN {} ELSE varint.n \cup b[1]]
    /\ UNCHANGED <<pipeline, snappy, frames, decoding, filters>>

\* A byte with the continuation bit: n |= (b & 0x7f) << shift and go on with
\* shift + 7, or return 0 when the shift is None.
ReadVarintContinue ==
    /\ varint.pc = "loop"
    /\ \E low \in Lows :
          LET b == checked_shl(low, varint.shift) IN
          varint' = IF b = <<>>
                    THEN [varint EXCEPT !.pc = "returned",
                                        !.bytes = Append(@, Byte(TRUE, low)),
                                        !.ret = {}]
                    ELSE [varint EXCEPT !.bytes = Append(@, Byte(TRUE, low)),
                                        !.n = @ \cup b[1],
                                        !.shift = @ + 7]
    /\ UNCHANGED <<pipeline, snappy, frames, decoding, filters>>

VarintInit ==
    /\ PipelineUnused
    /\ varint = ReadVarintCall
    /\ snappy = Unused /\ frames = Unused /\ decoding = Unused /\ filters = Unused

VarintNext == ReadVarintEof \/ ReadVarintLast \/ ReadVarintContinue

VarintSpec == VarintInit /\ [][VarintNext]_vars

\* The unsigned LEB128 value of the bytes read: the low seven bits of the
\* k-th byte stand at bits 7(k-1) .. 7(k-1)+6.
LEB128(bytes) ==
    UNION {{7 * (k - 1) + i : i \in bytes[k].low} : k \in 1..Len(bytes)}

\* C21: read_varint returns the LEB128 value of every encoding of up to ten
\* bytes whose value fits 64 bits; after ten continuation bytes it returns 0
\* on the next byte, whatever it is, and reads no further; it never panics.
C21_VarintValueOrZero ==
    /\ varint.pc \in {"loop", "returned", "failed"}
    /\ Len(varint.bytes) <= 11
    /\ varint.pc = "returned" =>
          /\ (Len(varint.bytes) <= 10 /\ LEB128(varint.bytes) \subseteq 0..63) =>
                varint.ret = LEB128(varint.bytes)
          /\ Len(varint.bytes) = 11 => varint.ret = {}
    /\ (varint.pc = "loop" /\ Len(varint.bytes) = 10) => varint.shift = 70

C21_Witness ==
    /\ varint.pc = "returned"
    /\ Len(varint.bytes) = 11
    /\ varint.bytes[11] = Byte(TRUE, 0..6)
    /\ varint.n # {} /\ varint.ret = {}

C21_WitnessTopBit ==
    /\ varint.pc = "returned"
    /\ Len(varint.bytes) = 10
    /\ varint.ret = 0..63

----------------------------------------------------------------------------
\* The pipeline again (specification Spec).

\* C22: a worker places trees of a block on the tree channel only when every
\* record of the block decoded: of a block with a record that fails, no tree
\* is ever placed, held for sending, queued or delivered, the trees of the
\* records before the failing one included.
C22_BlockAllOrNothing ==
    \A b \in DOMAIN file :
        ~BlockDecodes(file[b]) =>
            /\ emitted[b] = <<>>
            /\ \A d \in BagToSet(decoder) : \A t \in Range(d.trees) : t.blk # b
            /\ \A t \in Range(tree_chan) \cup BagToSet(delivered) : t.blk # b

\* A worker received a block whose first record decodes and whose second
\* does not, and panicked; the consumer saw the channel closed.
C22_Witness ==
    /\ \E b \in DOMAIN file :
          /\ FirstFailure(file[b]) = 2 /\ file[b].recs[2].status = "bad"
          /\ BagIn(b, taken)
          /\ emitted[b] = <<>>
    /\ Decoders({"panicked"}) >= 1
    /\ consumer = "closed"

----------------------------------------------------------------------------
\* SnappyReader again (specification SnappySpec).

\* C23: a read for n > 0 bytes returns 0 only when every chunk of the block
\* has been consumed and the staging buffer is empty.
C23_ZeroOnlyAtTrueEnd ==
    (snappy.pc = "idle" /\ snappy.calls > 0 /\ snappy.size > 0 /\ snappy.ret = 0) =>
        (SnappyExhausted /\ snappy.buf = <<>>)

\* What holds instead: the buffer is empty, and either every chunk has been
\* consumed or the chunk consumed last decompressed to no bytes.
ZeroAtEndOrAfterEmptyChunk ==
    (snappy.pc = "idle" /\ snappy.calls > 0 /\ snappy.size > 0 /\ snappy.ret = 0) =>
        /\ snappy.buf = <<>>
        /\ \/ SnappyExhausted
           \/ snappy.reader > 0 /\ snappy.block[snappy.reader].data = <<>>

----------------------------------------------------------------------------
\* MessageTree::decode again (specification DecodeSpec).

\* The messages of the record: its 't', 'E', 'M', 'H' and 'L' tags.
Encoded == {j \in 1..Len(Toks) : Toks[j].tag \in {"t", "E", "M", "H", "L"}}

\* Where the messages of the tree's catalogues came from.
Catalogued ==
    LET tree == decoding.tree IN
    UNION {{list[k].at : k \in 1..Len(list)} :
              list \in {tree.transactions, tree.events, tree.metrics,
                        tree.heartbeats, tree.traces}}

\* C24: decode returns a tree only when the message loop has consumed the
\* whole record, so that every message of the record is in a catalogue; a 'T'
\* read with no transaction open does not end the decode with success.
C24_WholeRecordDecoded ==
    (decoding.pc = "returned" /\ decoding.result = "Ok") =>
        /\ Consumed = Len(Toks)
        /\ \A j \in 1..Len(Toks) : ~(Toks[j].tag = "T" /\ DepthBefore(j) = 0)
        /\ Catalogued = Encoded

\* What holds instead: the tree holds the messages up to the first 'T' read
\* with no transaction open, and none after it.
DecodedUpToStrayClose ==
    (decoding.pc = "returned" /\ decoding.result = "Ok") =>
        Catalogued = {j \in Encoded : j <= Consumed}

\* A successful decode that left a message of the record out of the tree.
StrayCloseDropsTheRest ==
    /\ decoding.pc = "returned" /\ decoding.result = "Ok"
    /\ Tags = <<"E", "T", "E">>
    /\ Ats(decoding.tree.events) = <<1>>
    /\ Catalogued = {1}

----------------------------------------------------------------------------
\* MessageBlockReader again (specification FrameSpec).

\* C25: of a well-formed file every block is emitted, however many bytes a
\* read call returns for a length prefix; the reader panics on a short length
\* only when the file ends inside the four bytes of the length.
C25_ShortReadOnlyAtEndOfInput ==
    /\ (FramesAtRest /\ frames.file.magic = "valid" /\ frames.file.tail = NoTail) =>
          frames.emitted = WholeFrames(frames.file)
    /\ (frames.pc = "panicked" /\ frames.cause \in {"short_read", "truncated"}) =>
          /\ frames.cause = "truncated"
          /\ FileSize(frames.file) - frames.r.pos < 4

----------------------------------------------------------------------------
\* The filter threads of main (main.rs).  The trees come out of the channel
\* read_trees returned; a tree is told by whether the query matches it, or
\* fails on it.

MaxFilters == 2     \* --filter-threads
MaxNum == 2         \* -n
MaxTrees == 3       \* trees the dumper sends

Verdicts == {"match", "other", "error"}
TreeSupplies == UNION {[1..n -> Verdicts] : n \in 0..MaxTrees}

\* main up to `let recv = dumper.read_trees()`: count = opt.num, no thread
\* spawned yet.  chan: the trees in the channel; rest: those still to be sent;
\* printed: the thread of each line printed, in order.
MainStart(num, n_threads, quiet, supply) ==
    [pc |-> [i \in 1..n_threads |-> "unspawned"],
     count |-> [i \in 1..n_threads |-> 0],
     num |-> num, quiet |-> quiet,
     chan |-> <<>>, rest |-> supply, printed |-> <<>>]

\* The dumper puts its next tree in the channel.
FilterSourceSend ==
    /\ filters.rest # <<>>
    /\ filters' = [filters EXCEPT !.chan = Append(@, Head(filters.rest)),
                                  !.rest = Tail(@)]
    /\ UNCHANGED <<pipeline, snappy, frames, decoding, varint>>

\* thread::Builder::spawn(move || ...): the closure takes `count` by value, a
\* usize, so the thread starts with its own copy of main's count.
SpawnCount(i) == filters.num

\* The for loop of main spawns the threads in order.
FilterSpawn(i) ==
    /\ filters.pc[i] = "unspawned"
    /\ \A j \in 1..(i - 1) : filters.pc[j] # "unspawned"
    /\ filters' = [filters EXCEPT !.pc[i] = "recv", !.count[i] = SpawnCount(i)]
    /\ UNCHANGED <<pipeline, snappy, frames, decoding, varint>>

\* recv_timeout: Timeout, continue.
FilterRecvTimeout(i) ==
    /\ filters.pc[i] = "recv"
    /\ filters.chan = <<>> /\ filters.rest # <<>>
    /\ UNCHANGED vars

\* recv_timeout: Disconnected, break.
FilterRecvDisconnected(i) ==
    /\ filters.pc[i] = "recv"
    /\ filters.chan = <<>> /\ filters.rest = <<>>
    /\ filters' = [filters EXCEPT !.pc[i] = "done"]
    /\ UNCHANGED <<pipeline, snappy, frames, decoding, varint>>

\* A tree is received and evaluating the query on it fails: the closure
\* returns the error.
FilterError(i) ==
    /\ filters.pc[i] = "recv"
    /\ filters.chan # <<>> /\ Head(filters.chan) = "error"
    /\ filters' = [filters EXCEPT !.pc[i] = "failed", !.chan = Tail(@)]
    /\ UNCHANGED <<pipeline, snappy, frames, decoding, varint>>

\* A tree is received that the query does not match.
FilterSkip(i) ==
    /\ filters.pc[i] = "recv"
    /\ filters.chan # <<>> /\ Head(filters.chan) = "other"
    /\ filters' = [filters EXCEPT !.chan = Tail(@)]
    /\ UNCHANGED <<pipeline, snappy, frames, decoding, varint>>

\* A matching tree is received with count > 0: print it (unless quiet) and
\* count -= 1.
FilterPrint(i) ==
    /\ filters.pc[i] = "recv"
    /\ filters.chan # <<>> /\ Head(filters.chan) = "match"
    /\ filters.count[i] > 0
    /\ filters' = [filters EXCEPT !.chan = Tail(@),
                                  !.count[i] = @ - 1,
                                  !.printed = IF filters.quiet THEN @ ELSE Append(@, i)]
    /\ UNCHANGED <<pipeline, snappy, frames, decoding, varint>>

\* A matching tree is received with count = 0: break.
FilterLimit(i) ==
    /\ filters.pc[i] = "recv"
    /\ filters.chan # <<>> /\ Head(filters.chan) = "match"
    /\ filters.count[i] = 0
    /\ filters' = [filters EXCEPT !.pc[i] = "done", !.chan = Tail(@)]
    /\ UNCHANGED <<pipeline, snappy, frames, decoding, varint>>

FilterInit ==
    /\ PipelineUnused
    /\ filters \in {MainStart(num, n, quiet, supply) :
                       num \in 0..MaxNum, n \in 1..MaxFilters,
                       quiet \in BOOLEAN, supply \in TreeSupplies}
    /\ snappy = Unused /\ frames = Unused /\ decoding = Unused /\ varint = Unused

FilterThread(i) ==
    \/ FilterSpawn(i)
    \/ FilterRecvTimeout(i)
    \/ FilterRecvDisconnected(i)
    \/ FilterError(i)
    \/ FilterSkip(i)
    \/ FilterPrint(i)
    \/ FilterLimit(i)

FilterNext == FilterSourceSend \/ \E i \in DOMAIN filters.pc : FilterThread(i)

FilterSpec == FilterInit /\ [][FilterNext]_vars

\* The lines a thread printed.
PrintedBy(i) == Cardinality({k \in 1..Len(filters.printed) : filters.printed[k] = i})

\* C26: with -n num, the trees printed by all the filter threads together
\* never exceed num.
C26_LimitOverAllThreads == Len(filters.printed) <= filters.num

\* What holds instead: no single thread prints more than num trees, so the
\* process prints at most num trees with one filter thread, and at most
\* num times the number of threads in general.
LimitPerThread ==
    /\ \A i \in DOMAIN filters.pc : PrintedBy(i) <= filters.num
    /\ Len(filters.pc) = 1 => Len(filters.printed) <= filters.num

====
